---- MODULE Spec2Model ----
(***************************************************************************)
(* A model of epub-saver (class Volume and class EpubSaver).               *)
(*                                                                         *)
(* Strings are sequences of string pieces: a piece is a run of characters  *)
(* that the modelled code never splits (a reserved XML character is always *)
(* a piece of its own, so is the "." before a file extension).  A template *)
(* literal is the concatenation of its pieces, a number is rendered by     *)
(* ToString as the template literal renders it.                            *)
(*                                                                         *)
(* Every async method is cut at its awaits: the code between two awaits is *)
(* one action (JavaScript runs it without interruption), everything that   *)
(* a continuation does after the awaited promise settles is the next one.  *)
(***************************************************************************)
EXTENDS Integers, Sequences, FiniteSets, TLC

\* ------------------------------------------------------------------ bounds
MaxVolumes == 2
MaxChapters == 2
MaxCss == 2
MaxImgs == 2
MaxInFlight == 2
MaxCssUrls == 2

\* ------------------------------------------------------------ strings

RECURSIVE Flatten(_)
Flatten(ss) == IF ss = <<>> THEN <<>> ELSE Head(ss) \o Flatten(Tail(ss))

Range(s) == {s[i] : i \in 1..Len(s)}

\* str.startsWith / endsWith on pieces
StartsWith(s, p) == Len(s) >= Len(p) /\ SubSeq(s, 1, Len(p)) = p
EndsWith(s, p) == Len(s) >= Len(p) /\ SubSeq(s, Len(s) - Len(p) + 1, Len(s)) = p

\* str.replace(new RegExp(escaped(pat), 'g'), rep): every non-overlapping
\* occurrence of pat, scanning from the left
RECURSIVE ReplaceAll(_, _, _)
ReplaceAll(s, pat, rep) ==
    IF pat = <<>> \/ Len(s) < Len(pat) THEN s
    ELSE IF StartsWith(s, pat)
         THEN rep \o ReplaceAll(SubSeq(s, Len(pat) + 1, Len(s)), pat, rep)
         ELSE <<Head(s)>> \o ReplaceAll(Tail(s), pat, rep)

\* the part of s before the first piece in seps (split(/[#?]/)[0])
RECURSIVE Before(_, _)
Before(s, seps) ==
    IF s = <<>> \/ Head(s) \in seps THEN <<>>
    ELSE <<Head(s)>> \o Before(Tail(s), seps)

\* the part of s after the last piece sep, all of s when there is none
\* (split(sep).pop())
RECURSIVE AfterLast(_, _)
AfterLast(s, sep) ==
    IF \E i \in 1..Len(s) : s[i] = sep
    THEN LET i == CHOOSE j \in 1..Len(s) :
                     s[j] = sep /\ \A m \in (j+1)..Len(s) : s[m] # sep
         IN SubSeq(s, i + 1, Len(s))
    ELSE s

\* the five reserved XML characters
Reserved == {"<", ">", "&", "'", "\""}

\* Volume.escapeXml
RECURSIVE escapeXml(_)
escapeXml(str) ==
    IF str = <<>> THEN <<>>
    ELSE LET c == Head(str)
             e == CASE c = "<" -> <<"&", "lt;">>
                    [] c = ">" -> <<"&", "gt;">>
                    [] c = "&" -> <<"&", "amp;">>
                    [] c = "'" -> <<"&", "apos;">>
                    [] c = "\"" -> <<"&", "quot;">>
                    [] OTHER -> <<c>>
         IN e \o escapeXml(Tail(str))

\* path.replace(/[^a-z0-9]/gi, '-') on one piece
SanitizePiece(p) ==
    CASE p = "volume_" -> "volume-"
      [] p = "chapter_" -> "chapter-"
      [] p = "_" -> "-"
      [] p = "." -> "-"
      [] p = "images/img" -> "images-img"
      [] p = "images/cover" -> "images-cover"
      [] p = "resources/res" -> "resources-res"
      [] p = "Styles/style" -> "Styles-style"
      [] p = "http://" -> "http---"
      [] p = "https://" -> "https---"
      [] p = "h/a" -> "h-a"
      [] p = "h/b" -> "h-b"
      [] p = "?" -> "-"
      [] OTHER -> p

SanitizeId(path) == [i \in 1..Len(path) |-> SanitizePiece(path[i])]

\* the media type generateOpf infers from the end of the path
MediaType(path) ==
    IF EndsWith(path, <<".", "xhtml">>) THEN "application/xhtml+xml"
    ELSE IF EndsWith(path, <<".", "css">>) THEN "text/css"
    ELSE IF EndsWith(path, <<".", "jpg">>) \/ EndsWith(path, <<".", "jpeg">>)
         THEN "image/jpeg"
    ELSE IF EndsWith(path, <<".", "png">>) THEN "image/png"
    ELSE "application/octet-stream"

\* a string or value that JavaScript's || treats as absent
NoStr == <<>>


\* ------------------------------------------------------------- state

VARIABLES
    resources,          \* EpubSaver.resources: Map in insertion order, <<path, content>> entries
    resourceUrls,       \* EpubSaver.resourceUrls: external URL -> local path
    volumes,            \* EpubSaver.volumes: array of Volume
    cssList,            \* EpubSaver.cssList
    cssMap,             \* EpubSaver.cssMap: mapname -> idx
    info,               \* EpubSaver.info
    resourceCounters,   \* EpubSaver.resourceCounters
    secure,             \* window.location.href.startsWith('https://')
    calls,              \* the async calls in flight, each at one of its awaits
    ret                 \* what the latest step returned to its caller (history)

vars == <<resources, resourceUrls, volumes, cssList, cssMap, info,
          resourceCounters, secure, calls, ret>>

Idle == [op |-> "idle"]
NoRet == [op |-> "none"]
NoBytes == [kind |-> "absent"]

Slots == 1..MaxInFlight
InFlight == {k \in Slots : calls[k].op # "idle"}
\* a caller that awaits every call before it issues the next one
Awaited == InFlight = {}

\* --------------------------------------------------- resource store

Has(res, path) == \E i \in 1..Len(res) : res[i][1] = path
Get(res, path) == res[CHOOSE i \in 1..Len(res) : res[i][1] = path][2]
Paths(res) == {res[i][1] : i \in 1..Len(res)}

\* a last-writer-wins store
AddResourceMutant(res, path, content) ==
    IF Has(res, path)
    THEN [i \in 1..Len(res) |-> IF res[i][1] = path THEN <<path, content>> ELSE res[i]]
    ELSE Append(res, <<path, content>>)

\* EpubSaver._addResource
addResource(res, path, content) ==
    IF ~Has(res, path) THEN Append(res, <<path, content>>) ELSE res

\* Map.set on resourceUrls
SetUrl(urls, url, path) == (url :> path) @@ urls

\* ------------------------------------------------------- documents

\* the placeholder document of the Volume constructor
ContainerDoc(title) == [kind |-> "container", title |-> title, h1 |-> title]

ContainerFile(idx) == <<"volume_", ToString(idx), ".", "xhtml">>
ChapterFile(vidx, idx) == <<"chapter_", ToString(vidx), "_", ToString(idx), ".", "xhtml">>
CoverImagePath == <<"images/cover", ".", "jpg">>
CoverPagePath == <<"cover", ".", "xhtml">>

\* new Volume(epub, title, idx): the Volume object, vid is its identity
NewVolume(vid, title, idx) ==
    [vid |-> vid, title |-> title, idx |-> idx, chapters |-> <<>>,
     containerFile |-> ContainerFile(idx)]

\* Volume.extractContent: the inside of <article>, else of <body>, else the input
extractContent(html) ==
    IF html.wrap \in {"article", "body"} THEN [html EXCEPT !.wrap = "none"] ELSE html

\* Volume.wrapContent
wrapContent(content, title, contentType, insertTitle) ==
    IF contentType = "text"
    THEN [content EXCEPT !.pre = TRUE,
                         !.h1 = IF insertTitle THEN <<title>> ELSE <<>>]
    ELSE IF contentType = "html" /\ insertTitle
    THEN [content EXCEPT !.h1 = <<title>>]
    ELSE content

\* Array.prototype.find on cssList: the first stylesheet with that idx
FindCss(list, idx) ==
    LET hits == {i \in 1..Len(list) : list[i].idx = idx}
    IN IF hits = {} THEN <<>>
       ELSE <<list[CHOOSE i \in hits : \A j \in hits : i <= j]>>

RECURSIVE CssLinksOf(_, _)
CssLinksOf(list, req) ==
    IF req = <<>> THEN <<>>
    ELSE FindCss(list, Head(req)) \o CssLinksOf(list, Tail(req))

\* the requested stylesheets first, the global one last
CssLinksMutant(list, useGlobalCSS, req) ==
    CssLinksOf(list, req) \o (IF useGlobalCSS THEN FindCss(list, 0) ELSE <<>>)

\* the cssLinks of Volume.buildXhtml
CssLinks(list, useGlobalCSS, req) ==
    (IF useGlobalCSS THEN FindCss(list, 0) ELSE <<>>) \o CssLinksOf(list, req)

\* Volume.buildXhtml
buildXhtml(list, content1, title, useGlobalCSS, req) ==
    LET links == CssLinks(list, useGlobalCSS, req)
    IN [kind |-> "chapter",
        title |-> escapeXml(title),
        links |-> [i \in 1..Len(links) |-> links[i].filename],
        body |-> extractContent(content1)]


\* ----------------------------------------------------------- fetch

\* the outcomes of fetch(url): a response with a success status, a response
\* with an error status, or a rejection (network error)
Outcomes == {"ok", "http_error", "network_error"}

\* the body of the response to GET url
Body(url, outcome) == [kind |-> "bytes", of |-> url, status |-> outcome]

IsHttp(url) == url # <<>> /\ Head(url) \in {"http://", "https://"}

\* the mixed-content upgrade of processImages
Upgrade(url, sec) ==
    IF Head(url) = "http://" /\ sec THEN <<"https://">> \o Tail(url) ELSE url

\* String.prototype.toLowerCase on one piece
LowerPiece(p) ==
    CASE p = "PNG" -> "png"
      [] p = "JPG" -> "jpg"
      [] OTHER -> p

\* MIME_MAP.get(mimeType), <<>> for undefined
MimeMap(mimeType) ==
    CASE mimeType = <<"image", "/", "jpeg">> -> <<"jpg">>
      [] mimeType = <<"image", "/", "png">> -> <<"png">>
      [] mimeType = <<"image", "/", "gif">> -> <<"gif">>
      [] mimeType = <<"image", "/", "webp">> -> <<"webp">>
      [] mimeType = <<"image", "/", "svg+xml">> -> <<"svg">>
      [] mimeType = <<"image", "/", "avif">> -> <<"avif">>
      [] mimeType = <<"application", "/", "octet-stream">> -> <<"bin">>
      [] OTHER -> <<>>

\* Volume.getExtension
getExtension(mimeType, url) ==
    LET fromMime == IF MimeMap(mimeType) # <<>> THEN MimeMap(mimeType)
                    ELSE AfterLast(mimeType, "/")
        fromUrl == AfterLast(Before(url, {"#", "?"}), ".")
        ext == IF fromMime # <<>> THEN fromMime
               ELSE IF fromUrl # <<>> THEN fromUrl ELSE <<"bin">>
    IN [i \in 1..Len(ext) |-> LowerPiece(ext[i])]

\* the extension processImages derives from the Content-Type header
\* (<<>>: no header)
ImageExt(header, url) ==
    LET contentType == IF header # <<>> THEN header
                       ELSE <<"application", "/", "octet-stream">>
    IN getExtension(Before(contentType, {";"}), url)

ImageFile(n, ext) == <<"images/img", ToString(n), ".">> \o ext

\* ------------------------------------------------------- addVolume

VolumeIn(vols, vid) == vols[CHOOSE i \in 1..Len(vols) : vols[i].vid = vid]
Volume(vid) == VolumeIn(volumes, vid)
Vids == {volumes[i].vid : i \in 1..Len(volumes)}

FreeSlot(k) == calls[k] = Idle /\ \A j \in Slots : j < k => calls[j] # Idle

\* EpubSaver.addVolume with the Volume constructor
AddVolume(title, idx) ==
    /\ resources' = addResource(resources, ContainerFile(idx), ContainerDoc(title))
    /\ volumes' = Append(volumes, NewVolume(Len(volumes) + 1, title, idx))
    /\ ret' = [op |-> "addVolume", vid |-> Len(volumes) + 1]
    /\ UNCHANGED <<resourceUrls, cssList, cssMap, info, resourceCounters, secure, calls>>

\* ------------------------------------------------------- addChapter

\* what the callback of processImages does with one node before its first
\* await: a text node is no img; an img without src or with a mapped src is
\* left as it is; an img whose src is no http URL is removed; the others wait
\* for their fetch
ImgStart(node, urls) ==
    IF node.tag # "img" THEN "text"
    ELSE IF node.src = <<>> \/ node.src \in DOMAIN urls THEN "keep"
    ELSE IF ~IsHttp(node.src) THEN "removed"
    ELSE "pending"

\* Volume.addChapter up to the await of Promise.all in processImages
AddChapterStart(k, vid, idx, content, title, contentType, insertTitle, useGlobalCSS, req) ==
    /\ FreeSlot(k)
    /\ vid \in Vids
    /\ LET chapD == extractContent(content)
           processed == wrapContent(chapD, title, contentType, insertTitle)
           n == Len(processed.nodes)
       IN calls' = [calls EXCEPT ![k] =
             [op |-> "addChapter", vid |-> vid, idx |-> idx, title |-> title,
              useGlobalCSS |-> useGlobalCSS, cssList |-> req,
              doc |-> processed,
              st |-> [i \in 1..n |-> ImgStart(processed.nodes[i], resourceUrls)],
              url |-> [i \in 1..n |->
                         IF ImgStart(processed.nodes[i], resourceUrls) = "pending"
                         THEN Upgrade(processed.nodes[i].src, secure) ELSE <<>>],
              resources |-> <<>>,
              outcome |-> [i \in 1..n |-> "none"]]]
    /\ ret' = NoRet
    /\ UNCHANGED <<resources, resourceUrls, volumes, cssList, cssMap, info,
                   resourceCounters, secure>>

\* a callback that reads the counter and does not advance it
ImgFetchedStale(k, i, outcome, header) ==
    /\ calls[k].op = "addChapter"
    /\ i \in 1..Len(calls[k].st)
    /\ calls[k].st[i] = "pending"
    /\ LET c == calls[k]
           url == c.url[i]
           filename == ImageFile(resourceCounters.image, ImageExt(header, url))
       IN IF outcome = "ok"
          THEN calls' = [calls EXCEPT ![k] =
                     [c EXCEPT !.st[i] = "done",
                               !.outcome[i] = outcome,
                               !.doc.nodes[i].src = filename,
                               !.resources = Append(@, <<url, filename, Body(url, outcome)>>)]]
          ELSE calls' = [calls EXCEPT ![k] =
                     [c EXCEPT !.st[i] = "removed", !.outcome[i] = outcome]]
    /\ ret' = NoRet
    /\ UNCHANGED <<resources, resourceUrls, volumes, cssList, cssMap, info,
                   resourceCounters, secure>>

\* a callback without the check of response.ok: the body of an error
\* response is staged like an image
ImgFetchedMutant(k, i, outcome, header) ==
    /\ calls[k].op = "addChapter"
    /\ i \in 1..Len(calls[k].st)
    /\ calls[k].st[i] = "pending"
    /\ LET c == calls[k]
           url == c.url[i]
           filename == ImageFile(resourceCounters.image, ImageExt(header, url))
       IN IF outcome # "network_error"
          THEN /\ resourceCounters' = [resourceCounters EXCEPT !.image = @ + 1]
               /\ calls' = [calls EXCEPT ![k] =
                     [c EXCEPT !.st[i] = "done",
                               !.outcome[i] = outcome,
                               !.doc.nodes[i].src = filename,
                               !.resources = Append(@, <<url, filename, Body(url, outcome)>>)]]
          ELSE /\ resourceCounters' = resourceCounters
               /\ calls' = [calls EXCEPT ![k] =
                     [c EXCEPT !.st[i] = "removed", !.outcome[i] = outcome]]
    /\ ret' = NoRet
    /\ UNCHANGED <<resources, resourceUrls, volumes, cssList, cssMap, info, secure>>

\* the callback of processImages for image i once its fetch has settled
\* (outcome: how each fetch of the call ended, history)
ImgFetched(k, i, outcome, header) ==
    /\ calls[k].op = "addChapter"
    /\ i \in 1..Len(calls[k].st)
    /\ calls[k].st[i] = "pending"
    /\ LET c == calls[k]
           url == c.url[i]
           filename == ImageFile(resourceCounters.image, ImageExt(header, url))
       IN IF outcome = "ok"
          THEN /\ resourceCounters' = [resourceCounters EXCEPT !.image = @ + 1]
               /\ calls' = [calls EXCEPT ![k] =
                     [c EXCEPT !.st[i] = "done",
                               !.outcome[i] = outcome,
                               !.doc.nodes[i].src = filename,
                               !.resources = Append(@, <<url, filename, Body(url, outcome)>>)]]
          ELSE /\ resourceCounters' = resourceCounters
               /\ calls' = [calls EXCEPT ![k] =
                     [c EXCEPT !.st[i] = "removed", !.outcome[i] = outcome]]
    /\ ret' = NoRet
    /\ UNCHANGED <<resources, resourceUrls, volumes, cssList, cssMap, info, secure>>

\* a registration that maps the URLs and stores nothing
RECURSIVE RegisterUrlsOnly(_, _, _)
RegisterUrlsOnly(urls, res, list) ==
    IF list = <<>> THEN [urls |-> urls, res |-> res]
    ELSE RegisterUrlsOnly(SetUrl(urls, Head(list)[1], Head(list)[2]), res, Tail(list))

\* Volume.registerResources
RECURSIVE registerResources(_, _, _)
registerResources(urls, res, list) ==
    IF list = <<>> THEN [urls |-> urls, res |-> res]
    ELSE registerResources(SetUrl(urls, Head(list)[1], Head(list)[2]),
                           addResource(res, Head(list)[2], Head(list)[3]),
                           Tail(list))

\* XMLSerializer.serializeToString(doc.documentElement): the document element
\* with the body holding what is left of the fragment
Serialize(doc, st) ==
    [doc EXCEPT !.wrap = "body",
                !.nodes = SelectSeq(doc.nodes, LAMBDA nd : st[nd.pos] # "removed")]

\* an addChapter that does not wait for its image fetches: it registers
\* what has been fetched so far
AddChapterFinishEarly(k) ==
    /\ calls[k].op = "addChapter"
    /\ LET c == calls[k]
           vol == Volume(c.vid)
           reg == registerResources(resourceUrls, resources, c.resources)
           finalContent == Serialize(c.doc, c.st)
           xhtml == buildXhtml(cssList, finalContent, c.title, c.useGlobalCSS, c.cssList)
           filename == ChapterFile(vol.idx, c.idx)
       IN /\ resourceUrls' = reg.urls
          /\ resources' = addResource(reg.res, filename, xhtml)
          /\ volumes' = [i \in 1..Len(volumes) |->
                IF volumes[i].vid = c.vid
                THEN [volumes[i] EXCEPT !.chapters =
                        Append(@, [idx |-> c.idx, title |-> c.title, filename |-> filename])]
                ELSE volumes[i]]
          /\ ret' = [op |-> "addChapter", call |-> c, xhtml |-> xhtml,
                     filename |-> filename]
    /\ calls' = [calls EXCEPT ![k] = Idle]
    /\ UNCHANGED <<cssList, cssMap, info, resourceCounters, secure>>

\* Volume.addChapter after processImages: every fetch has settled
AddChapterFinish(k) ==
    /\ calls[k].op = "addChapter"
    /\ \A i \in 1..Len(calls[k].st) : calls[k].st[i] # "pending"
    /\ LET c == calls[k]
           vol == Volume(c.vid)
           reg == registerResources(resourceUrls, resources, c.resources)
           finalContent == Serialize(c.doc, c.st)
           xhtml == buildXhtml(cssList, finalContent, c.title, c.useGlobalCSS, c.cssList)
           filename == ChapterFile(vol.idx, c.idx)
       IN /\ resourceUrls' = reg.urls
          /\ resources' = addResource(reg.res, filename, xhtml)
          /\ volumes' = [i \in 1..Len(volumes) |->
                IF volumes[i].vid = c.vid
                THEN [volumes[i] EXCEPT !.chapters =
                        Append(@, [idx |-> c.idx, title |-> c.title, filename |-> filename])]
                ELSE volumes[i]]
          /\ ret' = [op |-> "addChapter", call |-> c, xhtml |-> xhtml,
                     filename |-> filename]
    /\ calls' = [calls EXCEPT ![k] = Idle]
    /\ UNCHANGED <<cssList, cssMap, info, resourceCounters, secure>>

\* ---------------------------------------------------------- setInfo

\* EpubSaver.setInfo without a fetch: any tag with a value, a cover as bytes
SetInfo(tag, value) ==
    /\ info' = [info EXCEPT ![tag] = value]
    /\ ret' = [op |-> "setInfo", rejected |-> FALSE, fetch |-> "none"]
    /\ UNCHANGED <<resources, resourceUrls, volumes, cssList, cssMap,
                   resourceCounters, secure, calls>>

\* EpubSaver.setInfo('cover', url) up to the await of fetch
SetInfoCoverStart(k, url) ==
    /\ FreeSlot(k)
    /\ calls' = [calls EXCEPT ![k] = [op |-> "setInfo", url |-> url]]
    /\ ret' = NoRet
    /\ UNCHANGED <<resources, resourceUrls, volumes, cssList, cssMap, info,
                   resourceCounters, secure>>

\* a rejected cover fetch that still sets the cover, to nothing
CoverFetchedMutant(k, outcome) ==
    /\ calls[k].op = "setInfo"
    /\ info' = [info EXCEPT !["cover"] =
                  IF outcome = "network_error" THEN NoBytes
                  ELSE Body(calls[k].url, outcome)]
    /\ ret' = [op |-> "setInfo", rejected |-> outcome = "network_error",
               fetch |-> outcome]
    /\ calls' = [calls EXCEPT ![k] = Idle]
    /\ UNCHANGED <<resources, resourceUrls, volumes, cssList, cssMap,
                   resourceCounters, secure>>

\* EpubSaver.setInfo('cover', url) once the fetch has settled: a rejection
\* leaves the method, a response of any status becomes the cover (fetch: how
\* the fetch ended, history)
CoverFetched(k, outcome) ==
    /\ calls[k].op = "setInfo"
    /\ IF outcome = "network_error"
       THEN /\ info' = info
            /\ ret' = [op |-> "setInfo", rejected |-> TRUE, fetch |-> outcome]
       ELSE /\ info' = [info EXCEPT !["cover"] = Body(calls[k].url, outcome)]
            /\ ret' = [op |-> "setInfo", rejected |-> FALSE, fetch |-> outcome]
    /\ calls' = [calls EXCEPT ![k] = Idle]
    /\ UNCHANGED <<resources, resourceUrls, volumes, cssList, cssMap,
                   resourceCounters, secure>>


\* ----------------------------------------------------------- addCSS

\* the URLs the regular expression of processCSSUrls matches in css, in
\* order: what stands between a "url(" piece and the next ")" piece
RECURSIVE CssUrls(_)
CssUrls(css) ==
    IF css = <<>> THEN <<>>
    ELSE IF Head(css) = "url(" /\ \E i \in 2..Len(css) : css[i] = ")"
         THEN LET close == CHOOSE i \in 2..Len(css) :
                              css[i] = ")" /\ \A j \in 2..(i-1) : css[j] # ")"
              IN <<SubSeq(css, 2, close - 1)>> \o CssUrls(SubSeq(css, close + 1, Len(css)))
         ELSE CssUrls(Tail(css))

\* /^https?:\/\// on the content of addCSS
IsRemoteSheet(content) == content # <<>> /\ Head(content) \in {"http://", "https://"}

\* the extension processCSSUrls derives from the URL
CssExt(url) ==
    LET e == Before(AfterLast(url, "."), {"#", "?"})
    IN IF e # <<>> THEN e ELSE <<"bin">>

OtherFile(n, ext) == <<"resources/res", ToString(n), ".">> \o ext
StyleFile(n) == <<"Styles/style", ToString(n), ".", "css">>

\* this.resourceUrls.get(url) || url
Resolved(urls, url) == IF url \in DOMAIN urls THEN urls[url] ELSE url

\* the loop of processCSSUrls from one await to the next: the matches whose
\* URL is mapped need no fetch; it stops at the first that needs one
RECURSIVE RunCssLoop(_, _)
RunCssLoop(c, urls) ==
    IF c.todo = <<>> THEN [c EXCEPT !.pc = "finish"]
    ELSE IF Head(c.todo) \in DOMAIN urls
         THEN RunCssLoop([c EXCEPT !.todo = Tail(@),
                                   !.replacements =
                                       Append(@, <<Head(c.todo), Resolved(urls, Head(c.todo))>>)],
                         urls)
         ELSE [c EXCEPT !.pc = "url"]

\* processCSSUrls called with the stylesheet text
EnterCssLoop(c, css, urls) ==
    RunCssLoop([c EXCEPT !.css = css, !.todo = CssUrls(css), !.replacements = <<>>], urls)

\* EpubSaver.addCSS up to its first await
AddCSSStart(k, idx, content, filename, mapname) ==
    /\ FreeSlot(k)
    /\ LET c == [op |-> "addCSS", idx |-> idx, filename |-> filename,
                 mapname |-> mapname, pc |-> "sheet", css |-> content,
                 todo |-> <<>>, replacements |-> <<>>, failed |-> {}]
       IN calls' = [calls EXCEPT ![k] =
                      IF IsRemoteSheet(content) THEN c
                      ELSE EnterCssLoop(c, content, resourceUrls)]
    /\ ret' = NoRet
    /\ UNCHANGED <<resources, resourceUrls, volumes, cssList, cssMap, info,
                   resourceCounters, secure>>

\* addCSS once the fetch of a remote stylesheet has settled: a rejection
\* leaves addCSS, a response of any status is read as the stylesheet text
SheetFetched(k, outcome, text) ==
    /\ calls[k].op = "addCSS"
    /\ calls[k].pc = "sheet"
    /\ IF outcome = "network_error"
       THEN /\ calls' = [calls EXCEPT ![k] = Idle]
            /\ ret' = [op |-> "addCSS", rejected |-> TRUE]
       ELSE /\ calls' = [calls EXCEPT ![k] = EnterCssLoop(calls[k], text, resourceUrls)]
            /\ ret' = NoRet
    /\ UNCHANGED <<resources, resourceUrls, volumes, cssList, cssMap, info,
                   resourceCounters, secure>>

\* a failed fetch that ends the loop: the later url() tokens are not processed
CssUrlFetchedMutant(k, outcome) ==
    /\ calls[k].op = "addCSS"
    /\ calls[k].pc = "url"
    /\ LET c == calls[k]
           url == Head(c.todo)
           filename == OtherFile(resourceCounters.other, CssExt(url))
       IN IF outcome = "network_error"
          THEN /\ calls' = [calls EXCEPT ![k] =
                     [c EXCEPT !.pc = "finish", !.failed = @ \cup {url},
                               !.replacements = Append(@, <<url, url>>)]]
               /\ UNCHANGED <<resources, resourceUrls, resourceCounters>>
          ELSE /\ resourceCounters' = [resourceCounters EXCEPT !.other = @ + 1]
               /\ resources' = addResource(resources, filename, Body(url, outcome))
               /\ resourceUrls' = SetUrl(resourceUrls, url, filename)
               /\ calls' = [calls EXCEPT ![k] =
                     RunCssLoop([c EXCEPT !.todo = Tail(@),
                                          !.replacements = Append(@, <<url, filename>>)],
                                resourceUrls')]
    /\ ret' = NoRet
    /\ UNCHANGED <<volumes, cssList, cssMap, info, secure>>

\* processCSSUrls once the fetch of the URL of the current match has settled
\* (failed: the URLs whose fetch was rejected, history)
CssUrlFetched(k, outcome) ==
    /\ calls[k].op = "addCSS"
    /\ calls[k].pc = "url"
    /\ LET c == calls[k]
           url == Head(c.todo)
           filename == OtherFile(resourceCounters.other, CssExt(url))
       IN IF outcome = "network_error"
          THEN /\ calls' = [calls EXCEPT ![k] =
                     RunCssLoop([c EXCEPT !.todo = Tail(@),
                                          !.failed = @ \cup {url},
                                          !.replacements =
                                              Append(@, <<url, Resolved(resourceUrls, url)>>)],
                                resourceUrls)]
               /\ UNCHANGED <<resources, resourceUrls, resourceCounters>>
          ELSE /\ resourceCounters' = [resourceCounters EXCEPT !.other = @ + 1]
               /\ resources' = addResource(resources, filename, Body(url, outcome))
               /\ resourceUrls' = SetUrl(resourceUrls, url, filename)
               /\ calls' = [calls EXCEPT ![k] =
                     RunCssLoop([c EXCEPT !.todo = Tail(@),
                                          !.replacements = Append(@, <<url, filename>>)],
                                resourceUrls')]
    /\ ret' = NoRet
    /\ UNCHANGED <<volumes, cssList, cssMap, info, secure>>

\* the reduce of processCSSUrls: one global textual replacement per match
RECURSIVE ApplyReplacements(_, _)
ApplyReplacements(css, reps) ==
    IF reps = <<>> THEN css
    ELSE ApplyReplacements(ReplaceAll(css, Head(reps)[1], Head(reps)[2]), Tail(reps))

\* where a slot goes when its addCSS call returns: back to the caller, or to
\* the createCSSMap call that awaits it
AfterAddCSS(c) ==
    IF "map" \in DOMAIN c
    THEN [op |-> "createCSSMap", map |-> c.map, mapname |-> c.mapname, idx |-> c.idx]
    ELSE Idle

\* EpubSaver.addCSS after processCSSUrls
AddCSSFinish(k) ==
    /\ calls[k].op = "addCSS"
    /\ calls[k].pc = "finish"
    /\ LET c == calls[k]
           cssContent == ApplyReplacements(c.css, c.replacements)
           filename == IF c.filename = NoStr THEN StyleFile(resourceCounters.css)
                       ELSE c.filename
       IN /\ resourceCounters' =
                IF c.filename = NoStr THEN [resourceCounters EXCEPT !.css = @ + 1]
                ELSE resourceCounters
          /\ resources' = addResource(resources, filename, [kind |-> "css", text |-> cssContent])
          /\ cssList' = Append(cssList, [idx |-> c.idx, filename |-> filename,
                                         mapname |-> c.mapname])
          /\ cssMap' = IF c.mapname # NoStr THEN (c.mapname :> c.idx) @@ cssMap ELSE cssMap
          /\ ret' = [op |-> "addCSS", rejected |-> FALSE, call |-> c,
                     filename |-> filename, text |-> cssContent]
    /\ calls' = [calls EXCEPT ![k] = AfterAddCSS(calls[k])]
    /\ UNCHANGED <<resourceUrls, volumes, info, secure>>


\* ----------------------------------------------------- createCSSMap

\* Math.max(...this.cssList.map(c => c.idx), 0)
MaxIdx(list) ==
    LET s == {list[i].idx : i \in 1..Len(list)} \cup {0}
    IN CHOOSE m \in s : \A x \in s : x <= m

\* the loop of createCSSMap from one await to the next: with an entry left,
\* ++maxIdx and addCSS(idx, content, mapname, mapname) up to its first await;
\* with none, the return of results.  map is the frame of createCSSMap:
\* maxIdx, the entries left, results (listed: the indices of the stylesheet
\* list when the pending index was assigned, history)
CssMapLoop(k, map) ==
    IF map.todo = <<>>
    THEN /\ calls' = [calls EXCEPT ![k] = Idle]
         /\ ret' = [op |-> "createCSSMap", results |-> map.results]
    ELSE LET idx == map.maxIdx + 1
             mapname == Head(map.todo)[1]
             content == Head(map.todo)[2]
             c == [op |-> "addCSS", idx |-> idx, filename |-> mapname,
                   mapname |-> mapname, pc |-> "sheet", css |-> content,
                   todo |-> <<>>, replacements |-> <<>>, failed |-> {},
                   map |-> [map EXCEPT !.maxIdx = idx, !.todo = Tail(@),
                                       !.listed = {cssList[i].idx : i \in 1..Len(cssList)}]]
         IN /\ calls' = [calls EXCEPT ![k] =
                           IF IsRemoteSheet(content) THEN c
                           ELSE EnterCssLoop(c, content, resourceUrls)]
            /\ ret' = NoRet

\* EpubSaver.createCSSMap up to its first await
CreateCSSMapStart(k, entries) ==
    /\ FreeSlot(k)
    /\ CssMapLoop(k, [maxIdx |-> MaxIdx(cssList), todo |-> entries,
                      results |-> <<>>, listed |-> {}])
    /\ UNCHANGED <<resources, resourceUrls, volumes, cssList, cssMap, info,
                   resourceCounters, secure>>

\* EpubSaver.createCSSMap once the addCSS call it awaits has returned
CreateCSSMapResume(k) ==
    /\ calls[k].op = "createCSSMap"
    /\ CssMapLoop(k, [calls[k].map EXCEPT
                         !.results = (calls[k].mapname :> calls[k].idx) @@ @])
    /\ UNCHANGED <<resources, resourceUrls, volumes, cssList, cssMap, info,
                   resourceCounters, secure>>

\* ------------------------------------------------------- generators

\* no sort at all: the array stays in insertion order
SortByIdxMutant(arr) == arr

\* Array.prototype.sort((a, b) => a.idx - b.idx): stable, ascending idx
RECURSIVE SortByIdx(_)
SortByIdx(arr) ==
    IF arr = <<>> THEN <<>>
    ELSE LET rest == SortByIdx(SubSeq(arr, 1, Len(arr) - 1))
             x == arr[Len(arr)]
             before == SelectSeq(rest, LAMBDA e : e.idx <= x.idx)
             after == SelectSeq(rest, LAMBDA e : e.idx > x.idx)
         IN before \o <<x>> \o after

\* this.volumes.sort(...) followed by v.chapters.sort(...) on every volume:
\* both sort in place
SortCatalog(vols) ==
    LET sorted == SortByIdx(vols)
    IN [i \in 1..Len(sorted) |-> [sorted[i] EXCEPT !.chapters = SortByIdx(@)]]

\* this.info.x || fallback
OrElse(value, fallback) == IF value # NoStr THEN value ELSE fallback

NavPointId(n) == <<"navpoint-", ToString(n)>>

\* a counter that is advanced for the volumes and not for their chapters
RECURSIVE NcxPointsFlat(_, _)
NcxPointsFlat(vols, playOrder) ==
    IF vols = <<>> THEN <<>>
    ELSE LET vol == Head(vols)
             n == Len(vol.chapters)
             point ==
                 [id |-> NavPointId(playOrder), playOrder |-> playOrder,
                  label |-> vol.title,
                  src |-> IF vol.containerFile # <<>> THEN vol.containerFile
                          ELSE IF n > 0 THEN vol.chapters[1].filename ELSE <<"undefined">>,
                  points |-> [j \in 1..n |->
                                [id |-> NavPointId(playOrder + j),
                                 playOrder |-> playOrder + j,
                                 label |-> vol.chapters[j].title,
                                 src |-> vol.chapters[j].filename]]]
         IN <<point>> \o NcxPointsFlat(Tail(vols), playOrder + 1)

\* the navPoints of generateNcx, playOrder being the counter on entry
RECURSIVE NcxPoints(_, _)
NcxPoints(vols, playOrder) ==
    IF vols = <<>> THEN <<>>
    ELSE LET vol == Head(vols)
             n == Len(vol.chapters)
             point ==
                 [id |-> NavPointId(playOrder), playOrder |-> playOrder,
                  label |-> vol.title,
                  src |-> IF vol.containerFile # <<>> THEN vol.containerFile
                          ELSE IF n > 0 THEN vol.chapters[1].filename ELSE <<"undefined">>,
                  points |-> [j \in 1..n |->
                                [id |-> NavPointId(playOrder + j),
                                 playOrder |-> playOrder + j,
                                 label |-> vol.chapters[j].title,
                                 src |-> vol.chapters[j].filename]]]
         IN <<point>> \o NcxPoints(Tail(vols), playOrder + 1 + n)

\* EpubSaver.generateNcx on the sorted catalog
generateNcx(vols, inf) ==
    [docTitle |-> OrElse(inf["bookname"], <<"Untitled">>),
     navMap |-> NcxPoints(vols, 1)]

\* the manifest items generateOpf emits for the entries of the store
ResourceItems(res) ==
    [i \in 1..Len(res) |->
        [id |-> SanitizeId(res[i][1]), href |-> res[i][1],
         type |-> MediaType(res[i][1]), properties |-> ""]]

\* the itemrefs of the chapters, volume by volume
RECURSIVE ChapterRefs(_)
ChapterRefs(vols) ==
    IF vols = <<>> THEN <<>>
    ELSE [j \in 1..Len(Head(vols).chapters) |->
             SanitizeId(Head(vols).chapters[j].filename)]
         \o ChapterRefs(Tail(vols))

\* the store after generateOpf has materialized the cover
CoverResources(res, inf) ==
    IF inf["cover"] # NoBytes
    THEN addResource(addResource(res, CoverImagePath, inf["cover"]),
                     CoverPagePath, [kind |-> "coverpage", img |-> CoverImagePath])
    ELSE res

\* EpubSaver.generateOpf on the store with the cover and the sorted catalog
generateOpf(res, vols, inf) ==
    LET cover == inf["cover"] # NoBytes
    IN [metadata |-> [title |-> OrElse(inf["bookname"], <<"Untitled">>),
                      creator |-> OrElse(inf["author"], <<"Unknown">>),
                      description |-> OrElse(inf["introduction"], <<>>),
                      cover |-> IF cover THEN <<"cover-image">> ELSE <<>>],
        manifest |->
           <<[id |-> <<"nav">>, href |-> <<"nav", ".", "xhtml">>,
              type |-> "application/xhtml+xml", properties |-> "nav"],
             [id |-> <<"ncx">>, href |-> <<"toc", ".", "ncx">>,
              type |-> "application/x-dtbncx+xml", properties |-> ""]>>
           \o (IF cover
               THEN <<[id |-> <<"cover-image">>, href |-> CoverImagePath,
                       type |-> "image/jpeg", properties |-> "cover-image"],
                      [id |-> <<"cover">>, href |-> CoverPagePath,
                       type |-> "application/xhtml+xml", properties |-> ""]>>
               ELSE <<>>)
           \o ResourceItems(res),
        spine |-> (IF cover THEN <<<<"cover">>>> ELSE <<>>) \o ChapterRefs(vols),
        guide |-> IF cover THEN <<CoverPagePath>> ELSE <<>>]

\* EpubSaver.generateNav on the sorted catalog
generateNav(vols) ==
    [i \in 1..Len(vols) |->
        [href |-> IF Len(vols[i].chapters) > 0 /\ vols[i].chapters[1].filename # <<>>
                  THEN vols[i].chapters[1].filename ELSE <<>>,
         label |-> vols[i].title,
         items |-> [j \in 1..Len(vols[i].chapters) |->
                      [href |-> vols[i].chapters[j].filename,
                       label |-> vols[i].chapters[j].title]]]]

\* ------------------------------------------------------------- save

\* JSZip file(name, data, options): a new name is appended, an existing name
\* keeps its place
ZipFile(zip, name, compression) ==
    IF \E i \in 1..Len(zip) : zip[i].name = name
    THEN [i \in 1..Len(zip) |->
            IF zip[i].name = name THEN [name |-> name, compression |-> compression]
            ELSE zip[i]]
    ELSE Append(zip, [name |-> name, compression |-> compression])

RECURSIVE ZipResources(_, _)
ZipResources(zip, res) ==
    IF res = <<>> THEN zip
    ELSE ZipResources(ZipFile(zip, <<"OEBPS/">> \o Head(res)[1], "default"), Tail(res))

\* generateAsync({compression}): an entry without a compression of its own
\* gets the archive's
GenerateAsync(zip, compression) ==
    [i \in 1..Len(zip) |->
        [zip[i] EXCEPT !.compression = IF @ = "default" THEN compression ELSE @]]

\* the mimetype entry added last, and compressed like the others
ArchiveMutant(res) ==
    GenerateAsync(
        ZipFile(
            ZipFile(
                ZipResources(
                    ZipFile(
                        ZipFile(
                            ZipFile(<<>>, <<"META-INF/", "container", ".", "xml">>, "default"),
                            <<"OEBPS/", "content", ".", "opf">>, "default"),
                        <<"OEBPS/", "toc", ".", "ncx">>, "default"),
                    res),
                <<"OEBPS/", "nav", ".", "xhtml">>, "default"),
            <<"mimetype">>, "default"),
        "DEFLATE")

\* the zip.file calls of save in their order, then generateAsync
Archive(res) ==
    GenerateAsync(
        ZipFile(
            ZipResources(
                ZipFile(
                    ZipFile(
                        ZipFile(
                            ZipFile(<<>>, <<"mimetype">>, "STORE"),
                            <<"META-INF/", "container", ".", "xml">>, "default"),
                        <<"OEBPS/", "content", ".", "opf">>, "default"),
                    <<"OEBPS/", "toc", ".", "ncx">>, "default"),
                res),
            <<"OEBPS/", "nav", ".", "xhtml">>, "default"),
        "DEFLATE")

\* EpubSaver.save: generateOpf, generateNcx, the store, generateNav
Save ==
    LET res == CoverResources(resources, info)
        vols == SortCatalog(volumes)
    IN /\ resources' = res
       /\ volumes' = vols
       /\ ret' = [op |-> "save",
                  opf |-> generateOpf(res, vols, info),
                  ncx |-> generateNcx(vols, info),
                  nav |-> generateNav(vols),
                  archive |-> Archive(res)]
       /\ UNCHANGED <<resourceUrls, cssList, cssMap, info, resourceCounters,
                      secure, calls>>


\* ----------------------------------------------------------- inputs

\* caller-provided titles: a plain one, one made of reserved characters
Titles == {<<"T">>, <<"<", "&", "\"">>}
Idxs == {1, 2}
Tags == {"cover", "bookname", "author", "introduction"}

UrlA == <<"http://", "h/a", ".", "png">>
UrlAs == <<"https://", "h/a", ".", "png">>
UrlA2 == <<"http://", "h/a", ".", "png", "?", "2">>
UrlRel == <<"a", ".", "png">>
UrlCover == <<"http://", "h/b", ".", "jpg">>
UrlSheet == <<"http://", "h/b", ".", "css">>

\* the nodes of a fragment: pos is the place of the node in the fragment and
\* orig the src attribute it came with (history)
TextNode(i) == [tag |-> "text", src |-> <<>>, orig |-> <<>>, pos |-> i]
ImgNode(i, src) == [tag |-> "img", src |-> src, orig |-> src, pos |-> i]

Fragment(wrap, nodes) == [wrap |-> wrap, pre |-> FALSE, h1 |-> <<>>, nodes |-> nodes]

PlainContents == {Fragment("none", <<TextNode(1)>>)}

ImgSrcs == {UrlA, UrlAs, UrlRel, <<>>}
ImgContents ==
    {Fragment("body", [i \in 1..n |-> ImgNode(i, srcs[i])]) :
        n \in 1..MaxImgs, srcs \in [1..MaxImgs -> ImgSrcs]}

\* Content-Type headers of a response: none, a mapped type with a parameter
Headers == {<<>>, <<"image", "/", "png", ";", "q">>}

\* stylesheets of url() tokens; UrlA occurs inside UrlA2
UrlToken(url) == <<"url(">> \o url \o <<")", ";">>
CssUrlSet == {UrlA, UrlA2, UrlCover}
CssTexts ==
    {Flatten([i \in 1..n |-> UrlToken(us[i])]) :
        n \in 1..MaxCssUrls, us \in [1..MaxCssUrls -> CssUrlSet]}
CssFilenames == {NoStr, <<"main", ".", "css">>}

CallerBytes == [kind |-> "bytes", of |-> <<"caller">>, status |-> "ok"]

NumChapters ==
    LET RECURSIVE Sum(_)
        Sum(vs) == IF vs = <<>> THEN 0 ELSE Len(Head(vs).chapters) + Sum(Tail(vs))
    IN Sum(volumes) + Cardinality({k \in Slots : calls[k].op = "addChapter"})

NumCss == Len(cssList) + Cardinality({k \in Slots : calls[k].op = "addCSS"})

\* ------------------------------------------------------------- init

\* the EpubSaver constructor
Construct ==
    /\ resources = <<>>
    /\ resourceUrls = <<>>
    /\ volumes = <<>>
    /\ cssList = <<>>
    /\ cssMap = <<>>
    /\ info = [t \in Tags |-> IF t = "cover" THEN NoBytes ELSE NoStr]
    /\ resourceCounters = [image |-> 0, css |-> 0, other |-> 0]
    /\ calls = [k \in Slots |-> Idle]
    /\ ret = NoRet

\* a page served over http: no mixed-content upgrade
Init == Construct /\ secure = FALSE

\* a page served over http or over https
InitAnyPage == Construct /\ secure \in BOOLEAN

\* ------------------------------------------------ the catalog, awaited

\* a caller that awaits every call: volumes, chapters of text, the book name,
\* a cover given as bytes, save
Next ==
    \/ \E t \in Titles, i \in Idxs :
          Awaited /\ Len(volumes) < MaxVolumes /\ AddVolume(t, i)
    \/ \E vid \in Vids, i \in Idxs, t \in Titles, c \in PlainContents :
          /\ Awaited /\ NumChapters < MaxChapters
          /\ AddChapterStart(1, vid, i, c, t, "html", TRUE, TRUE, <<>>)
    \/ \E k \in Slots : AddChapterFinish(k)
    \/ \E t \in Titles : Awaited /\ SetInfo("bookname", t)
    \/ Awaited /\ SetInfo("cover", CallerBytes)
    \/ Awaited /\ Save

Spec == Init /\ [][Next]_vars


\* -------------------------------------------- stylesheet links, awaited

CssRequests == {<<>>, <<2>>, <<2, 1>>, <<0>>}

\* one volume, stylesheets without url() under the indices 0, 1 and 2,
\* chapters that ask for the global stylesheet or not and for extra indices
NextLinks ==
    \/ Awaited /\ Len(volumes) < 1 /\ AddVolume(<<"T">>, 1)
    \/ \E i \in {0, 1, 2} :
          /\ Awaited /\ NumCss < MaxCss
          /\ AddCSSStart(1, i, <<"body{}">>, NoStr, NoStr)
    \/ \E k \in Slots : AddCSSFinish(k)
    \/ \E vid \in Vids, i \in Idxs, c \in PlainContents, g \in BOOLEAN, req \in CssRequests :
          /\ Awaited /\ NumChapters < MaxChapters
          /\ AddChapterStart(1, vid, i, c, <<"T">>, "html", TRUE, g, req)
    \/ \E k \in Slots : AddChapterFinish(k)

SpecLinks == Init /\ [][NextLinks]_vars

\* -------------------------------------------------- the cover, awaited

\* the cover given as bytes or as a URL, volumes, the book name, save
NextCover ==
    \/ Awaited /\ SetInfo("cover", CallerBytes)
    \/ Awaited /\ SetInfoCoverStart(1, UrlCover)
    \/ \E k \in Slots, o \in Outcomes : CoverFetched(k, o)
    \/ \E t \in Titles : Awaited /\ SetInfo("bookname", t)
    \/ \E t \in Titles, i \in Idxs :
          Awaited /\ Len(volumes) < MaxVolumes /\ AddVolume(t, i)
    \/ Awaited /\ Save

SpecCover == Init /\ [][NextCover]_vars

\* ------------------------------------------------ images, awaited

\* one volume and chapters whose fragments hold img elements; every
\* addChapter is awaited before the next call
NextImages ==
    \/ Awaited /\ Len(volumes) < 1 /\ AddVolume(<<"T">>, 1)
    \/ \E vid \in Vids, i \in Idxs, c \in ImgContents :
          /\ Awaited /\ NumChapters < MaxChapters
          /\ AddChapterStart(1, vid, i, c, <<"T">>, "html", FALSE, TRUE, <<>>)
    \/ \E k \in Slots, i \in 1..MaxImgs, o \in Outcomes, h \in Headers :
          ImgFetched(k, i, o, h)
    \/ \E k \in Slots : AddChapterFinish(k)

SpecImages == InitAnyPage /\ [][NextImages]_vars

\* ------------------------------------------- stylesheets, awaited

\* stylesheets given as text or as the URL of a remote stylesheet, with and
\* without a filename; every addCSS is awaited before the next call
NextCss ==
    \/ \E c \in CssTexts \cup {UrlSheet}, f \in CssFilenames :
          /\ Awaited /\ NumCss < MaxCss
          /\ AddCSSStart(1, 0, c, f, NoStr)
    \/ \E k \in Slots, o \in Outcomes, t \in CssTexts : SheetFetched(k, o, t)
    \/ \E k \in Slots, o \in Outcomes : CssUrlFetched(k, o)
    \/ \E k \in Slots : AddCSSFinish(k)

SpecCss == Init /\ [][NextCss]_vars

\* ----------------------------------------------------------- claims

Saved == ret.op = "save"

\* C1: the store holds at most one entry per path, and a registration of a
\* path that is already there changes nothing: every entry keeps its place
\* and its bytes, which are those of the first registration of its path.
C1_FirstWriterWins ==
    /\ [](\A i, j \in 1..Len(resources) : resources[i][1] = resources[j][1] => i = j)
    /\ [][\A i \in 1..Len(resources) :
             Len(resources') >= i /\ resources'[i] = resources[i]]_vars

\* two volumes were created with the same index and different titles: the
\* container path was registered twice, the store holds the first document
C1_Witness ==
    \E i, j \in 1..Len(volumes) :
        /\ volumes[i].vid < volumes[j].vid
        /\ volumes[i].idx = volumes[j].idx
        /\ volumes[i].title # volumes[j].title
        /\ Has(resources, volumes[i].containerFile)
        /\ Get(resources, volumes[i].containerFile) = ContainerDoc(volumes[i].title)

\* the paths the generated documents refer to
OwnDocuments == {<<"nav", ".", "xhtml">>, <<"toc", ".", "ncx">>}
ManifestHrefs(opf) == {opf.manifest[i].href : i \in 1..Len(opf.manifest)}
ManifestIds(opf) == {opf.manifest[i].id : i \in 1..Len(opf.manifest)}
HrefsOfId(opf, id) ==
    {opf.manifest[i].href : i \in {j \in 1..Len(opf.manifest) : opf.manifest[j].id = id}}
NcxSrcs(ncx) ==
    {ncx.navMap[i].src : i \in 1..Len(ncx.navMap)}
    \cup UNION {{ncx.navMap[i].points[j].src : j \in 1..Len(ncx.navMap[i].points)} :
                    i \in 1..Len(ncx.navMap)}
NavHrefs(nav) ==
    {nav[i].href : i \in 1..Len(nav)}
    \cup UNION {{nav[i].items[j].href : j \in 1..Len(nav[i].items)} : i \in 1..Len(nav)}


\* C3: after save every href, src and idref of the package document, the
\* navigation-map document and the navigation document names a path of the
\* store (the manifest's items for the navigation document and the
\* navigation-map document, which save writes into the archive itself, are
\* taken as resolved; an idref names the path of the manifest item with
\* that id).
C3_RefsResolve ==
    Saved =>
        LET store == Paths(resources) \cup OwnDocuments
        IN /\ ManifestHrefs(ret.opf) \subseteq store
           /\ \A i \in 1..Len(ret.opf.spine) :
                 /\ ret.opf.spine[i] \in ManifestIds(ret.opf)
                 /\ HrefsOfId(ret.opf, ret.opf.spine[i]) \subseteq store
           /\ Range(ret.opf.guide) \subseteq store
           /\ NcxSrcs(ret.ncx) \subseteq store
           /\ NavHrefs(ret.nav) \subseteq store

\* the indices a generated path was built from
VolumeIdxOf(path) == CHOOSE i \in Idxs : ContainerFile(i) = path
ChapterIdxOf(path) == CHOOSE vc \in Idxs \X Idxs : ChapterFile(vc[1], vc[2]) = path
NonDecreasing(s) == \A i, j \in 1..Len(s) : i < j => s[i] <= s[j]
\* the chapter references of the navigation-map document, volume by volume
RECURSIVE NcxChapterSrcs(_)
NcxChapterSrcs(points) ==
    IF points = <<>> THEN <<>>
    ELSE [j \in 1..Len(Head(points).points) |-> Head(points).points[j].src]
         \o NcxChapterSrcs(Tail(points))

\* C4: the navigation-map document, the spine and the navigation document
\* list the volumes in non-decreasing volume index and the chapters of a
\* volume in non-decreasing chapter index, whatever the order of insertion
\* (the spine and the navigation document list the chapters, volume by
\* volume, as the navigation-map document does).
C4_Ordering ==
    Saved =>
        /\ NonDecreasing([i \in 1..Len(ret.ncx.navMap) |->
                             VolumeIdxOf(ret.ncx.navMap[i].src)])
        /\ \A i \in 1..Len(ret.ncx.navMap) :
              /\ NonDecreasing([j \in 1..Len(ret.ncx.navMap[i].points) |->
                                   ChapterIdxOf(ret.ncx.navMap[i].points[j].src)[2]])
              /\ \A j \in 1..Len(ret.ncx.navMap[i].points) :
                    ChapterIdxOf(ret.ncx.navMap[i].points[j].src)[1]
                        = VolumeIdxOf(ret.ncx.navMap[i].src)
        /\ SelectSeq(ret.opf.spine, LAMBDA r : r # <<"cover">>)
              = [i \in 1..Len(NcxChapterSrcs(ret.ncx.navMap)) |->
                    SanitizeId(NcxChapterSrcs(ret.ncx.navMap)[i])]
        /\ Len(ret.nav) = Len(ret.ncx.navMap)
        /\ \A i \in 1..Len(ret.nav) :
              /\ ret.nav[i].label = ret.ncx.navMap[i].label
              /\ [j \in 1..Len(ret.nav[i].items) |-> ret.nav[i].items[j].href]
                    = [j \in 1..Len(ret.ncx.navMap[i].points) |->
                          ret.ncx.navMap[i].points[j].src]

Position(res, path) == CHOOSE i \in 1..Len(res) : res[i][1] = path

\* a save of a book whose volumes were added in decreasing index, the later
\* one having got its chapter of index 2 before its chapter of index 1
C4_Witness ==
    /\ Saved
    /\ Len(volumes) = 2
    /\ volumes[1].idx < volumes[2].idx
    /\ volumes[1].vid > volumes[2].vid
    /\ Len(volumes[1].chapters) = 2
    /\ volumes[1].chapters[1].idx < volumes[1].chapters[2].idx
    /\ Position(resources, volumes[1].chapters[1].filename)
          > Position(resources, volumes[1].chapters[2].filename)

\* text in which every reserved character is escaped: no <, >, ' or " and
\* every & the start of one of the five entities
RECURSIVE WellEscaped(_)
WellEscaped(text) ==
    IF text = <<>> THEN TRUE
    ELSE IF Head(text) = "&"
         THEN /\ Len(text) >= 2
              /\ text[2] \in {"lt;", "gt;", "amp;", "apos;", "quot;"}
              /\ WellEscaped(SubSeq(text, 3, Len(text)))
         ELSE Head(text) \notin Reserved /\ WellEscaped(Tail(text))

TitlesOfDoc(doc) ==
    IF doc.kind = "container" THEN {doc.title, doc.h1}
    ELSE IF doc.kind = "chapter" THEN {doc.title} \cup Range(doc.body.h1)
    ELSE {}

NcxLabels(ncx) ==
    {ncx.docTitle}
    \cup {ncx.navMap[i].label : i \in 1..Len(ncx.navMap)}
    \cup UNION {{ncx.navMap[i].points[j].label : j \in 1..Len(ncx.navMap[i].points)} :
                    i \in 1..Len(ncx.navMap)}
NavLabels(nav) ==
    {nav[i].label : i \in 1..Len(nav)}
    \cup UNION {{nav[i].items[j].label : j \in 1..Len(nav[i].items)} : i \in 1..Len(nav)}

\* C5: a caller-provided title appears escaped wherever a generated document
\* embeds it: the chapter document's title and inserted heading, the volume
\* container document, the navigation-map document, the navigation document
\* and the package document.
C5_TitlesEscaped ==
    /\ \A i \in 1..Len(resources) :
          \A t \in TitlesOfDoc(resources[i][2]) : WellEscaped(t)
    /\ Saved =>
          /\ \A t \in NcxLabels(ret.ncx) : WellEscaped(t)
          /\ \A t \in NavLabels(ret.nav) : WellEscaped(t)
          /\ WellEscaped(ret.opf.metadata.title)

HasCssIdx(i) == \E n \in 1..Len(cssList) : cssList[n].idx = i
FirstCssFile(i) ==
    cssList[CHOOSE n \in 1..Len(cssList) :
               cssList[n].idx = i /\ \A m \in 1..(n-1) : cssList[m].idx # i].filename

\* C7: the links of a chapter are the stylesheet of index 0, if the global
\* stylesheet is asked for and there is one, then the stylesheet of every
\* requested index that has one, in the order of the request (of several
\* stylesheets with one index, the first added); with the stylesheets 0 and
\* 2, the global stylesheet and the request [2] they are two, 0 then 2.
C7_CssLinks ==
    ret.op = "addChapter" =>
        LET links == ret.xhtml.links
            req == SelectSeq(ret.call.cssList, HasCssIdx)
            global == ret.call.useGlobalCSS /\ HasCssIdx(0)
            off == IF global THEN 1 ELSE 0
        IN /\ Len(links) = off + Len(req)
           /\ global => links[1] = FirstCssFile(0)
           /\ \A j \in 1..Len(req) : links[off + j] = FirstCssFile(req[j])
           /\ ( /\ {cssList[n].idx : n \in 1..Len(cssList)} = {0, 2}
                /\ ret.call.useGlobalCSS
                /\ ret.call.cssList = <<2>> )
              => /\ Len(links) = 2
                 /\ links[1] # links[2]
                 /\ \E n \in 1..Len(cssList) :
                       cssList[n].idx = 0 /\ cssList[n].filename = links[1]
                 /\ \E n \in 1..Len(cssList) :
                       cssList[n].idx = 2 /\ cssList[n].filename = links[2]

\* the scenario: stylesheets 0 and 2, a chapter with the global stylesheet
\* and the request [2]
C7_Witness ==
    /\ ret.op = "addChapter"
    /\ [n \in 1..Len(cssList) |-> cssList[n].idx] = <<0, 2>>
    /\ ret.call.useGlobalCSS
    /\ ret.call.cssList = <<2>>
    /\ Len(ret.xhtml.links) = 2

\* C8: a cover fetch that fails with a network error rejects setInfo and
\* changes nothing: the cover keeps its value, no resource is registered.
C8_CoverFetchFails ==
    [][(ret'.op = "setInfo" /\ ret'.fetch = "network_error")
          => /\ ret'.rejected
             /\ info' = info
             /\ resources' = resources
             /\ resourceUrls' = resourceUrls]_vars

\* setInfo was rejected while a cover set before is still the cover
C8_Witness ==
    /\ ret.op = "setInfo"
    /\ ret.rejected
    /\ info["cover"] = CallerBytes


\* the img elements of the chapter documents of the store
StoredImgs ==
    UNION {Range(resources[i][2].body.nodes) :
              i \in {j \in 1..Len(resources) : resources[j][2].kind = "chapter"}}
\* the entries of the store that hold the response to a fetch of url
EntriesOf(res, url) ==
    {i \in 1..Len(res) : res[i][2].kind = "bytes" /\ res[i][2].of = url}

\* C2: with every call awaited, an external URL referenced at two places
\* gives one resource and one mapping, and both places refer to the same
\* local path.
C2_UrlDedup ==
    /\ \A i \in 1..Len(resources) :
          resources[i][2].kind = "bytes"
              => Cardinality(EntriesOf(resources, resources[i][2].of)) = 1
    /\ \A n1, n2 \in StoredImgs :
          (n1.tag = "img" /\ n2.tag = "img" /\ IsHttp(n1.orig) /\ n1.orig = n2.orig)
              => /\ n1.src = n2.src
                 /\ Has(resources, n1.src)

\* the addChapter call in slot k returns in this step
Returns(k) == calls[k].op = "addChapter" /\ calls'[k] = Idle

\* image i of the call failed: its fetch was rejected or answered with an
\* error status, or its src is no http URL
ImgFailed(c, i) ==
    \/ c.outcome[i] \in {"http_error", "network_error"}
    \/ /\ c.doc.nodes[i].tag = "img"
       /\ c.doc.nodes[i].orig # <<>>
       /\ ~IsHttp(c.doc.nodes[i].orig)
       /\ c.st[i] # "keep"
ImgUrl(c, i) == IF c.url[i] # <<>> THEN c.url[i] ELSE c.doc.nodes[i].orig

Occurrences(pat, text) ==
    {i \in 1..Len(text) : i + Len(pat) - 1 <= Len(text)
                          /\ SubSeq(text, i, i + Len(pat) - 1) = pat}
Occurs(pat, text) == Occurrences(pat, text) # {}

\* the URLs of the call whose fetch was rejected and that no later match of
\* the call resolved
FailedUrls(c) ==
    {u \in c.failed : \A i \in 1..Len(c.replacements) :
                          c.replacements[i][1] = u => c.replacements[i][2] = u}
\* the URLs of the call that resolved to a local path
ResolvedUrls(c) ==
    {c.replacements[i][1] : i \in {j \in 1..Len(c.replacements) :
                                      c.replacements[j][2] # c.replacements[j][1]}}

\* what C9 says of a returned addCSS call; Kept(u) are the failed URLs whose
\* tokens are stated to be left as they were
FailedCssFetch(Kept(_)) ==
    (ret.op = "addCSS" /\ ~ret.rejected) =>
        LET c == ret.call
            urls == CssUrls(c.css)
        IN /\ Len(cssList) > 0
           /\ cssList[Len(cssList)]
                 = [idx |-> c.idx, filename |-> ret.filename, mapname |-> c.mapname]
           /\ Has(resources, ret.filename)
           /\ \A u \in FailedUrls(c) :
                 /\ Kept(u) => Cardinality(Occurrences(UrlToken(u), ret.text))
                                  = Cardinality(Occurrences(UrlToken(u), c.css))
                 /\ u \notin DOMAIN resourceUrls
                 /\ EntriesOf(resources, u) = {}
           /\ [i \in 1..Len(c.replacements) |-> c.replacements[i][1]] = urls
           /\ \A u \in Range(urls) \ FailedUrls(c) :
                 /\ u \in DOMAIN resourceUrls
                 /\ Has(resources, resourceUrls[u])
                 /\ ~Occurs(u, ret.text)

\* C9 as stated: a failed fetch of a url() asset does not fail addCSS, which
\* registers the stylesheet; the token of the failing URL is left as it was,
\* nothing is registered or mapped for that URL, and the other tokens are
\* processed.
C9_FailedUrlKept == FailedCssFetch(LAMBDA u : TRUE)

\* C9 amended: the token of the failing URL is left as it was unless a URL
\* of the stylesheet that resolved to a local path occurs inside the failing
\* URL (the replacement is textual and global); the rest as stated.
C9_FailedUrlKeptUnlessInside ==
    FailedCssFetch(LAMBDA u : \A v \in ResolvedUrls(ret.call) : ~Occurs(v, u))

\* an addCSS call has returned with one URL failed, its token in place, and
\* another URL resolved
C9_Witness ==
    /\ ret.op = "addCSS"
    /\ ~ret.rejected
    /\ \E u \in FailedUrls(ret.call) :
          /\ Occurs(UrlToken(u), ret.text)
          /\ Head(CssUrls(ret.call.css)) = u
    /\ ResolvedUrls(ret.call) # {}

\* ------------------------------------------- calls in flight together

RaceSrcs == {UrlA, UrlCover}
RaceContents ==
    {Fragment("body", [i \in 1..n |-> ImgNode(i, srcs[i])]) :
        n \in 1..MaxImgs, srcs \in [1..MaxImgs -> RaceSrcs]}
RaceCss == {UrlToken(UrlA), UrlToken(UrlCover)}
RaceOutcomes == {"ok", "network_error"}

\* a caller that awaits nothing: up to MaxInFlight addChapter and addCSS
\* calls are in flight together and their continuations run in any order
NextRace ==
    \/ Awaited /\ Len(volumes) < 1 /\ AddVolume(<<"T">>, 1)
    \/ \E k \in Slots, vid \in Vids, c \in RaceContents :
          /\ NumChapters < MaxChapters
          /\ AddChapterStart(k, vid, NumChapters + 1, c, <<"T">>, "html", FALSE, TRUE, <<>>)
    \/ \E k \in Slots, i \in 1..MaxImgs, o \in RaceOutcomes :
          ImgFetched(k, i, o, <<>>)
    \/ \E k \in Slots : AddChapterFinish(k)
    \/ \E k \in Slots, c \in RaceCss :
          /\ NumCss < 1
          /\ AddCSSStart(k, 0, c, NoStr, NoStr)
    \/ \E k \in Slots, o \in RaceOutcomes : CssUrlFetched(k, o)
    \/ \E k \in Slots : AddCSSFinish(k)

SpecRace == Init /\ [][NextRace]_vars

\* the images the in-flight addChapter calls have fetched and not yet
\* registered: <<slot, place in the staging list>>
Staged ==
    {ki \in Slots \X (1..MaxImgs) :
        /\ calls[ki[1]].op = "addChapter"
        /\ ki[2] <= Len(calls[ki[1]].resources)}
StagedFile(ki) == calls[ki[1]].resources[ki[2]][2]

\* C11: whatever the interleaving of the addChapter calls in flight and of
\* the fetches inside one call, two fetched images never get the same
\* images/imgN filename, a fetched image never gets a filename the store
\* already holds, and when its call returns every fetched image is stored
\* under its own filename with its own bytes.
C11_DistinctImageFiles ==
    /\ [](/\ \A a, b \in Staged : a # b => StagedFile(a) # StagedFile(b)
          /\ \A a \in Staged : ~Has(resources, StagedFile(a)))
    /\ [][\A k \in Slots : Returns(k) =>
             \A i \in 1..Len(calls[k].resources) :
                LET r == calls[k].resources[i]
                IN /\ ~Has(resources, r[2])
                   /\ Has(resources', r[2])
                   /\ Get(resources', r[2]) = r[3]]_vars

\* two addChapter calls are in flight together and each has fetched an image
C11_Witness ==
    /\ \A k \in Slots : calls[k].op = "addChapter"
    /\ \E a, b \in Staged : a[1] # b[1]
    /\ resourceCounters.image >= 2

\* C12: in every reachable state, between the steps of the addChapter and
\* addCSS calls in flight as well, every local path the URL index maps a URL
\* to is the path of an entry of the store.
C12_MappedPathsStored ==
    \A u \in DOMAIN resourceUrls : Has(resources, resourceUrls[u])

\* an addChapter call and an addCSS call are in flight together, one image
\* URL and one stylesheet URL being mapped already
C12_Witness ==
    /\ \E k \in Slots : calls[k].op = "addChapter"
    /\ \E k \in Slots : calls[k].op = "addCSS"
    /\ \E u \in DOMAIN resourceUrls : Head(resourceUrls[u]) = "images/img"
    /\ \E u \in DOMAIN resourceUrls : Head(resourceUrls[u]) = "resources/res"

\* the images the call in slot k holds after this step, or held when it
\* returned in this step
StagedBy(k) ==
    IF calls'[k].op = "addChapter" THEN calls'[k].resources ELSE calls[k].resources

\* C13: a step that puts an image resource of an addChapter call into the
\* store or into the URL index is a step of that call taken when every
\* image fetch of the call has settled, and in that step the chapter
\* document, if it is registered, is registered after the images of the call.
C13_RegisterAfterAllFetches ==
    [][\A k \in Slots : calls[k].op = "addChapter" =>
          LET c == calls[k]
              staged == StagedBy(k)
              chapter == ChapterFile(Volume(c.vid).idx, c.idx)
          IN /\ \A i \in 1..Len(staged) :
                   (\/ Has(resources', staged[i][2])
                    \/ /\ staged[i][1] \in DOMAIN resourceUrls'
                       /\ resourceUrls'[staged[i][1]] = staged[i][2])
                   => /\ \A j \in 1..Len(c.st) : c.st[j] # "pending"
                      /\ calls'[k] = Idle
             /\ (Has(resources', chapter) /\ ~Has(resources, chapter))
                   => /\ calls'[k] = Idle
                      /\ \A i \in 1..Len(staged) :
                            /\ Has(resources', staged[i][2])
                            /\ Position(resources', staged[i][2])
                                  < Position(resources', chapter)]_vars

\* an addChapter call has returned with two fetched images and the chapter
\* document registered, another call being in flight
C13_Witness ==
    /\ ret.op = "addChapter"
    /\ Len(ret.call.resources) = 2
    /\ Get(resources, ret.filename) = ret.xhtml
    /\ \E k \in Slots : calls[k].op = "addChapter"

\* the manifest items of the package document whose href is path
ItemsOf(opf, path) == {i \in 1..Len(opf.manifest) : opf.manifest[i].href = path}

\* C14: after save the manifest of the package document has exactly one item
\* for every path of the store, with a cover as without.
C14_OneItemPerPath ==
    Saved => \A p \in Paths(resources) : Cardinality(ItemsOf(ret.opf, p)) = 1

\* the navPoints of the navigation-map document in traversal order: a
\* volume's point, the points of its chapters, the next volume's point
RECURSIVE Traversal(_)
Traversal(points) ==
    IF points = <<>> THEN <<>>
    ELSE <<Head(points)>> \o Head(points).points \o Traversal(Tail(points))

\* C15: in the navigation-map document the playOrder of the n-th navPoint in
\* traversal order is n (so the values start at 1, grow by one and none is
\* used twice), the id of every navPoint is made of its own playOrder, the
\* traversal goes volume by volume, and the chapters of a volume come in the
\* order of their indices.
C15_PlayOrder ==
    Saved =>
        LET t == Traversal(ret.ncx.navMap)
        IN /\ \A n \in 1..Len(t) :
                 /\ t[n].playOrder = n
                 /\ t[n].id = NavPointId(t[n].playOrder)
           /\ Len(ret.ncx.navMap) = Len(volumes)
           /\ \A i \in 1..Len(volumes) :
                 LET point == ret.ncx.navMap[i]
                 IN /\ point.src = volumes[i].containerFile
                    /\ [j \in 1..Len(point.points) |-> point.points[j].src]
                          = [j \in 1..Len(volumes[i].chapters) |->
                                volumes[i].chapters[j].filename]
                    /\ NonDecreasing([j \in 1..Len(point.points) |->
                                         ChapterIdxOf(point.points[j].src)[2]])

\* a saved book of two volumes, the first one with two chapters added in
\* the reverse order of their indices
C15_Witness ==
    /\ Saved
    /\ Len(ret.ncx.navMap) = 2
    /\ Len(ret.ncx.navMap[1].points) = 2
    /\ ret.ncx.navMap[2].playOrder = 4
    /\ Position(resources, ret.ncx.navMap[1].points[2].src)
          < Position(resources, ret.ncx.navMap[1].points[1].src)

\* C16: the container file of every volume resolves in the store to the
\* placeholder made for that volume's own title, and the filename an
\* addChapter call has recorded resolves to the document that call built,
\* also when a volume index or a chapter index is used again.
C16_OwnContent ==
    /\ \A i \in 1..Len(volumes) :
          /\ Has(resources, volumes[i].containerFile)
          /\ Get(resources, volumes[i].containerFile) = ContainerDoc(volumes[i].title)
    /\ ret.op = "addChapter" =>
          /\ Has(resources, ret.filename)
          /\ Get(resources, ret.filename) = ret.xhtml

\* ------------------------------------ stylesheet maps, calls in flight

\* the Object.entries of the maps given to createCSSMap
MapA == <<"a">>
MapB == <<"b">>
CssMaps ==
    {<<<<MapA, <<"body{}">>>>>>,
     <<<<MapA, <<"body{}">>>>, <<MapB, <<"p{}">>>>>>}

\* a caller that awaits nothing: createCSSMap and addCSS calls are in flight
\* together
NextCssMap ==
    \/ \E k \in Slots, m \in CssMaps :
          /\ Len(cssList) < MaxCss
          /\ CreateCSSMapStart(k, m)
    \/ \E k \in Slots : CreateCSSMapResume(k)
    \/ \E k \in Slots, i \in {0, 1, 2} :
          /\ Len(cssList) < MaxCss
          /\ AddCSSStart(k, i, <<"body{}">>, NoStr, NoStr)
    \/ \E k \in Slots : AddCSSFinish(k)

SpecCssMap == Init /\ [][NextCssMap]_vars

\* the addCSS calls in flight that a createCSSMap call awaits
MapCalls == {k \in Slots : calls[k].op = "addCSS" /\ "map" \in DOMAIN calls[k]}

\* C17: an index createCSSMap assigns is not 0, is none of the indices the
\* same call has assigned before and none of the indices in the stylesheet
\* list at the moment it is assigned, whatever addCSS and createCSSMap calls
\* are in flight with it; the map a call returns gives for each name the
\* index of a stylesheet of the list with that name.
C17_FreshIndices ==
    /\ \A k \in MapCalls :
          LET c == calls[k]
          IN /\ c.idx # 0
             /\ \A n \in DOMAIN c.map.results : c.map.results[n] # c.idx
             /\ c.idx \notin c.map.listed
    /\ ret.op = "createCSSMap" =>
          \A n \in DOMAIN ret.results :
             \E i \in 1..Len(cssList) :
                cssList[i].mapname = n /\ cssList[i].idx = ret.results[n]

====
